---- MODULE Spec2Model ----
(***************************************************************************)
(* Model of kdenlive-project-parser.py: the playlist timeline builder,     *)
(* the seek_chains window query, the trim arithmetic of the driver, the    *)
(* project loader parse_kdenlive_project and the per-day batch loop.       *)
(*                                                                         *)
(* Times.  datetime values are integers counting seconds since             *)
(* 1900-01-01 00:00:00 (what strptime('0:0:0.0') yields); a timedelta is   *)
(* an integer difference.  Identifiers that the code inspects by prefix    *)
(* (producer ids) are sequences of one-character strings.                  *)
(***************************************************************************)
EXTENDS Integers, Sequences, FiniteSets, TLC

VARIABLES
    pc,            \* position of the modelled run
    pl_id,         \* playlist_xml_obj.attrib["id"]
    children,      \* the children of playlist_xml_obj, in document order
    track,         \* the playlist object (id, timeline, is_valid)
    window,        \* the query window (start, end)
    results,       \* what seek_chains returned
    instructions,  \* the clip dictionaries computed from results
    project,       \* the top-level elements of the project file
    loaded,        \* what parse_kdenlive_project returned
    day,           \* index of the job being processed
    output,        \* the output dictionary of the current job
    printed,       \* the outputs print() has written, in order
    outfile        \* content of sample_output.yaml

vars == <<pc, pl_id, children, track, window, results, instructions,
          project, loaded, day, output, printed, outfile>>

----------------------------------------------------------------------------
(* Bounds of the model *)

MaxEvents == 3

MaxElements == 3

MaxJobs == 2

(* Sequences over S of length at most n *)
SeqUpTo(S, n) == UNION {[1..k -> S] : k \in 0..n}

Max(a, b) == IF a >= b THEN a ELSE b

----------------------------------------------------------------------------
(* Identifiers *)

chain_prefix == <<"c", "h", "a", "i", "n">>

ChainA == chain_prefix \o <<"0">>

ChainB == chain_prefix \o <<"1">>

BlackTrack == <<"b", "l", "a", "c", "k">>

(* str.startswith *)
startswith(s, prefix) ==
    /\ Len(s) >= Len(prefix)
    /\ SubSeq(s, 1, Len(prefix)) = prefix

MainBin == "main_bin"

----------------------------------------------------------------------------
(* Inputs of the timeline builder *)

GapLengths == {2}

InOutPairs == {<<0, 5>>, <<1, 3>>, <<0, 0>>, <<1, 0>>}

Blank(n) == [tag |-> "blank", length |-> n, producer |-> <<>>, in |-> 0, out |-> 0]

Entry(p, i, o) == [tag |-> "entry", length |-> 0, producer |-> p, in |-> i, out |-> o]

Events ==
    {Blank(n) : n \in GapLengths}
    \cup {Entry(p, io[1], io[2]) : p \in {ChainA, ChainB}, io \in InOutPairs}
    \cup {Entry(BlackTrack, 0, 5)}

TrackIds == {MainBin, "playlist0"}

----------------------------------------------------------------------------
(* timeline_obj *)

timeline_obj(chain_id, timeline_in, chain_in, chain_out) ==
    [chain_id |-> chain_id, timeline_in |-> timeline_in,
     chain_in |-> chain_in, chain_out |-> chain_out]

(* timeline_obj.length *)
length(t) == t.chain_out - t.chain_in

(* attrgetter("timeline_in") mapped over a list *)
keys(timeline) == [i \in 1..Len(timeline) |-> timeline[i].timeline_in]

(* bisect.bisect_right: lo, hi and the result are 0-based list positions *)
RECURSIVE bisect_loop(_, _, _, _)
bisect_loop(a, x, lo, hi) ==
    IF lo < hi
    THEN LET mid == (lo + hi) \div 2
         IN  IF x < a[mid + 1]
             THEN bisect_loop(a, x, lo, mid)
             ELSE bisect_loop(a, x, mid + 1, hi)
    ELSE lo

bisect_right(a, x) == bisect_loop(a, x, 0, Len(a))

insort_front(timeline, e) == <<e>> \o timeline

(* bisect.insort_right with timeline_obj.__lt__ *)
insort_right(timeline, e) ==
    LET i == bisect_right(keys(timeline), e.timeline_in)
    IN  SubSeq(timeline, 1, i) \o <<e>> \o SubSeq(timeline, i + 1, Len(timeline))

----------------------------------------------------------------------------
(* playlist.__init__ *)

blank_skip(current_time, child) == current_time

(* case "blank": the cursor moves by the gap's length *)
blank_step(current_time, child) == current_time + child.length

(* case "entry": the cursor moves by the length of the new entry *)
entry_step(current_time, new_entry) == current_time + length(new_entry)

(* one iteration of the loop over the children; st is the object under
   construction together with the local current_time *)
playlist_child(st, child) ==
    IF child.tag = "blank"
    THEN [st EXCEPT !.current_time = blank_step(st.current_time, child)]
    ELSE IF ~startswith(child.producer, chain_prefix)
    THEN st
    ELSE LET new_entry == timeline_obj(child.producer, st.current_time,
                                       child.in, child.out)
         IN  [st EXCEPT !.current_time = entry_step(st.current_time, new_entry),
                        !.timeline = insort_right(st.timeline, new_entry),
                        !.is_valid = TRUE]

RECURSIVE playlist_loop(_, _, _)
playlist_loop(st, xml_children, i) ==
    IF i > Len(xml_children)
    THEN st
    ELSE playlist_loop(playlist_child(st, xml_children[i]), xml_children, i + 1)

playlist_init(id, xml_children) ==
    LET st0 == [id |-> id, timeline |-> <<>>, current_time |-> 0,
                is_valid |-> FALSE]
        st  == IF id = MainBin THEN st0 ELSE playlist_loop(st0, xml_children, 1)
    IN  [id |-> st.id, timeline |-> st.timeline, is_valid |-> st.is_valid]

----------------------------------------------------------------------------
(* playlist.seek_chains *)

(* list indexing: a negative index counts from the end of the list; the
   result is the 1-based position read, or 0 when Python raises IndexError *)
py_index(lst, i) ==
    LET j == IF i < 0 THEN i + Len(lst) ELSE i
    IN  IF j >= 0 /\ j < Len(lst) THEN j + 1 ELSE 0

in_window_closed(t, end) == t.timeline_in <= end

(* the test of the forward scan *)
in_window(t, end) == t.timeline_in < end

(* for i in range(start_index+1, len(self.timeline)); i is 0-based *)
RECURSIVE seek_scan(_, _, _, _)
seek_scan(timeline, end, i, acc) ==
    IF i >= Len(timeline)
    THEN acc
    ELSE seek_scan(timeline, end, i + 1,
                   IF in_window(timeline[i + 1], end)
                   THEN Append(acc, timeline[i + 1])
                   ELSE acc)

seek_chains(timeline, start, end) ==
    LET start_index == bisect_right(keys(timeline), start) - 1
        p == py_index(timeline, start_index)
    IN  IF p = 0
        THEN [err |-> "IndexError", clips |-> <<>>]
        ELSE [err |-> "none",
              clips |-> seek_scan(timeline, end, start_index + 1, <<timeline[p]>>)]

----------------------------------------------------------------------------
(* The trim arithmetic of the driver *)

(* strftime('%H:%M:%S.%f')[:-3]: only the time of day is printed *)
strftime(t) == t % (24 * 60 * 60)

trim_clip(t, start, end) ==
    LET len == end - start
        start_offset == start - t.timeline_in
        chain_start == t.chain_in + start_offset
        chain_end == IF length(t) < len THEN t.chain_out ELSE chain_start + len
    IN  [start |-> strftime(chain_start), end |-> strftime(chain_end)]

----------------------------------------------------------------------------
(* Python dictionaries: functions; playlists, whose iteration order the
   driver follows, is the sequence of its values in insertion order *)

EmptyDict == <<>>

dict_set(d, k, v) == [x \in (DOMAIN d) \cup {k} |-> IF x = k THEN v ELSE d[x]]

playlists_set(pls, new_playlist) ==
    IF \E i \in 1..Len(pls) : pls[i].id = new_playlist.id
    THEN [i \in 1..Len(pls) |->
             IF pls[i].id = new_playlist.id THEN new_playlist ELSE pls[i]]
    ELSE Append(pls, new_playlist)

----------------------------------------------------------------------------
(* parse_kdenlive_project *)

Prop(name, text) == [name |-> name, text |-> text]

Track(producer, has_hide, hide) ==
    [producer |-> producer, has_hide |-> has_hide, hide |-> hide]

ChainElem(id, props) ==
    [tag |-> "chain", id |-> id, props |-> props, children |-> <<>>, tracks |-> <<>>]

PlaylistElem(id, xml_children) ==
    [tag |-> "playlist", id |-> id, props |-> <<>>, children |-> xml_children,
     tracks |-> <<>>]

TractorElem(tracks) ==
    [tag |-> "tractor", id |-> "", props |-> <<>>, children |-> <<>>,
     tracks |-> tracks]

Unbound == [bound |-> FALSE, text |-> ""]

(* for prop in child: the first property named "resource" is assigned to
   chain_filename; without one the local keeps what it held *)
chain_resource(props, chain_filename) ==
    IF \E i \in 1..Len(props) : props[i].name = "resource"
    THEN LET i == CHOOSE i \in 1..Len(props) :
                     /\ props[i].name = "resource"
                     /\ \A j \in 1..(i - 1) : props[j].name # "resource"
         IN  [bound |-> TRUE, text |-> props[i].text]
    ELSE chain_filename

(* case "tractor": every track with a hide attribute sets the status of its
   producer *)
RECURSIVE tractor_tracks(_, _, _)
tractor_tracks(status, tracks, i) ==
    IF i > Len(tracks)
    THEN status
    ELSE tractor_tracks(IF tracks[i].has_hide
                        THEN dict_set(status, tracks[i].producer, tracks[i].hide)
                        ELSE status,
                        tracks, i + 1)

(* if new_playlist.is_valid *)
keeps_playlist(new_playlist) == new_playlist.is_valid

(* one iteration of the loop over the root's children; st holds the
   locals chains, playlists, playlist_hide_status and chain_filename *)
parse_child(st, child) ==
    IF child.tag = "chain"
    THEN LET fn == chain_resource(child.props, st.chain_filename)
         IN  IF fn.bound
             THEN [st EXCEPT !.chain_filename = fn,
                             !.chains = dict_set(st.chains, child.id, fn.text)]
             ELSE [st EXCEPT !.err = "UnboundLocalError"]
    ELSE IF child.tag = "playlist"
    THEN LET new_playlist == playlist_init(child.id, child.children)
         IN  IF keeps_playlist(new_playlist)
             THEN [st EXCEPT !.playlists = playlists_set(st.playlists, new_playlist)]
             ELSE st
    ELSE [st EXCEPT !.playlist_hide_status =
                        tractor_tracks(st.playlist_hide_status, child.tracks, 1)]

RECURSIVE parse_loop(_, _, _)
parse_loop(st, root, i) ==
    IF i > Len(root) \/ st.err # "none"
    THEN st
    ELSE parse_loop(parse_child(st, root[i]), root, i + 1)

hide_lookup_default(status, id) ==
    IF id \in DOMAIN status THEN [err |-> "none", value |-> status[id]]
    ELSE [err |-> "none", value |-> "none"]

(* playlist_hide_status[id] *)
hide_lookup(status, id) ==
    IF id \in DOMAIN status THEN [err |-> "none", value |-> status[id]]
    ELSE [err |-> "KeyError", value |-> ""]

is_muted_audio(status) == status \in {"both", "audio"}

(* == "both" *)
is_muted(status) == status = "both"

(* the two loops that remove the muted playlists *)
remove_muted(pls, status) ==
    IF \E i \in 1..Len(pls) : hide_lookup(status, pls[i].id).err # "none"
    THEN [err |-> "KeyError", playlists |-> <<>>]
    ELSE LET Kept(pl) == ~is_muted(hide_lookup(status, pl.id).value)
         IN  [err |-> "none", playlists |-> SelectSeq(pls, Kept)]

(* ET.parse raises on a file that is not well-formed XML *)
parse_kdenlive_project(project_file) ==
    IF ~project_file.wellformed
    THEN [err |-> "ParseError", chains |-> EmptyDict, playlists |-> <<>>]
    ELSE LET st0 == [chains |-> EmptyDict, playlists |-> <<>>,
                     playlist_hide_status |-> EmptyDict,
                     chain_filename |-> Unbound, err |-> "none"]
             st == parse_loop(st0, project_file.root, 1)
             kept == remove_muted(st.playlists, st.playlist_hide_status)
         IN  IF st.err # "none"
             THEN [err |-> st.err, chains |-> EmptyDict, playlists |-> <<>>]
             ELSE IF kept.err # "none"
             THEN [err |-> kept.err, chains |-> EmptyDict, playlists |-> <<>>]
             ELSE [err |-> "none", chains |-> st.chains,
                   playlists |-> kept.playlists]

----------------------------------------------------------------------------
(* The body of the driver's loop over the days *)

(* chains[chain_id], then output[clip_name] is extended or created *)
add_clip(out, chains, t, start, end) ==
    IF t.chain_id \notin DOMAIN chains
    THEN [err |-> "KeyError", files |-> out.files]
    ELSE LET clip_name == chains[t.chain_id]
             clip == trim_clip(t, start, end)
         IN  [err |-> "none",
              files |-> dict_set(out.files, clip_name,
                                 IF clip_name \in DOMAIN out.files
                                 THEN Append(out.files[clip_name], clip)
                                 ELSE <<clip>>)]

(* for t in timeline_objs *)
RECURSIVE clips_loop(_, _, _, _, _, _)
clips_loop(out, chains, timeline_objs, start, end, i) ==
    IF i > Len(timeline_objs) \/ out.err # "none"
    THEN out
    ELSE clips_loop(add_clip(out, chains, timeline_objs[i], start, end),
                    chains, timeline_objs, start, end, i + 1)

(* for id, playlist in playlists.items() *)
RECURSIVE playlists_loop(_, _, _, _, _, _)
playlists_loop(out, chains, pls, start, end, i) ==
    IF i > Len(pls) \/ out.err # "none"
    THEN out
    ELSE LET found == seek_chains(pls[i].timeline, start, end)
         IN  IF found.err # "none"
             THEN [err |-> found.err, files |-> out.files]
             ELSE playlists_loop(clips_loop(out, chains, found.clips, start, end, 1),
                                 chains, pls, start, end, i + 1)

job_output(chains, pls, start, end) ==
    playlists_loop([err |-> "none", files |-> EmptyDict], chains, pls, start, end, 1)

carry_on(err, next) == next

(* an exception nobody catches ends the run; otherwise the next statement
   runs *)
after(err, next) == IF err # "none" THEN "aborted" ELSE next

----------------------------------------------------------------------------
(* Specification of one track: build it, query it, trim the clips found *)

WindowStarts == {0, 3, 5}

WindowEnds == {3, 5, 7}

NoTrack == [id |-> "", timeline |-> <<>>, is_valid |-> FALSE]

NoWindow == [start |-> 0, end |-> 0]

NoResults == [err |-> "none", clips |-> <<>>]

NoLoad == [err |-> "none", chains |-> <<>>, playlists |-> <<>>]

NoProject == [wellformed |-> FALSE, root |-> <<>>]

NoOutput == [err |-> "none", files |-> <<>>]

NoFile == [exists |-> FALSE, content |-> <<>>]

TrackInit ==
    /\ pc = "init"
    /\ pl_id \in TrackIds
    /\ children \in SeqUpTo(Events, MaxEvents)
    /\ track = NoTrack
    /\ window = NoWindow
    /\ results = NoResults
    /\ instructions = <<>>
    /\ project = NoProject
    /\ loaded = NoLoad
    /\ day = 0
    /\ output = NoOutput
    /\ printed = <<>>
    /\ outfile = NoFile

Build ==
    /\ pc = "init"
    /\ track' = playlist_init(pl_id, children)
    /\ pc' = "built"
    /\ UNCHANGED <<pl_id, children, window, results, instructions,
                   project, loaded, day, output, printed, outfile>>

(* only playlists with is_valid set are kept and queried *)
Seek ==
    /\ pc = "built"
    /\ track.is_valid
    /\ \E start \in WindowStarts, end \in WindowEnds :
          /\ window' = [start |-> start, end |-> end]
          /\ results' = seek_chains(track.timeline, start, end)
    /\ pc' = "sought"
    /\ UNCHANGED <<pl_id, children, track, instructions,
                   project, loaded, day, output, printed, outfile>>

Trim ==
    /\ pc = "sought"
    /\ results.err = "none"
    /\ instructions' = [n \in 1..Len(results.clips) |->
                          trim_clip(results.clips[n], window.start, window.end)]
    /\ pc' = "trimmed"
    /\ UNCHANGED <<pl_id, children, track, window, results,
                   project, loaded, day, output, printed, outfile>>

TrackNext == Build \/ Seek \/ Trim

Spec == TrackInit /\ [][TrackNext]_vars

----------------------------------------------------------------------------
(* Properties of the timeline builder *)

(* a clip reference whose producer id is in the media-clip class *)
Recognized(child) ==
    child.tag = "entry" /\ startswith(child.producer, chain_prefix)

(* what event number j adds to the cursor *)
Advance(child) ==
    IF child.tag = "blank" THEN child.length
    ELSE IF Recognized(child) THEN child.out - child.in
    ELSE 0

(* sum of the gap lengths and recognized clip durations before event i *)
RECURSIVE OffsetBefore(_, _)
OffsetBefore(evs, i) ==
    IF i <= 1 THEN 0 ELSE OffsetBefore(evs, i - 1) + Advance(evs[i - 1])

(* the PlacedClip that event i is to yield *)
Placed(evs, i) ==
    timeline_obj(evs[i].producer, OffsetBefore(evs, i), evs[i].in, evs[i].out)

RecognizedAt(evs) == {i \in 1..Len(evs) : Recognized(evs[i])}

(* the timeline holds exactly one record per recognized clip reference, each
   at the offset the events before it add up to *)
OnePlacedClipEach(evs, timeline) ==
    /\ Len(timeline) = Cardinality(RecognizedAt(evs))
    /\ \A i \in RecognizedAt(evs) :
          Cardinality({k \in 1..Len(timeline) : timeline[k] = Placed(evs, i)})
              = Cardinality({j \in RecognizedAt(evs) : Placed(evs, j) = Placed(evs, i)})

RoundTripEvents == <<Blank(2), Entry(ChainA, 0, 5), Entry(ChainB, 1, 3)>>

RoundTripTimeline ==
    <<timeline_obj(ChainA, 2, 0, 5), timeline_obj(ChainB, 7, 1, 3)>>

(* C1, as stated: building a track from any event sequence yields one
   PlacedClip per recognized clip reference, placed at the sum of the gap
   lengths and recognized durations before it; gaps and unrecognized
   references yield nothing and the latter leave the cursor alone; the
   round-trip example gives A at 2 and B at 7. *)
C1_AnyTrack ==
    pc # "init" =>
        /\ OnePlacedClipEach(children, track.timeline)
        /\ children = RoundTripEvents => track.timeline = RoundTripTimeline

(* C1, amended: the same for every track other than the asset bin
   "main_bin"; the asset bin is built empty and invalid whatever its
   events are. *)
C1_TrackBuild ==
    pc # "init" =>
        IF pl_id = MainBin
        THEN track.timeline = <<>> /\ ~track.is_valid
        ELSE /\ OnePlacedClipEach(children, track.timeline)
             /\ children = RoundTripEvents => track.timeline = RoundTripTimeline

C1_Witness ==
    /\ pc = "built"
    /\ pl_id # MainBin
    /\ children = RoundTripEvents
    /\ track.timeline = RoundTripTimeline

(* consecutive placed clips start at different times, in increasing order,
   and the earlier one ends no later than the next one starts *)
StrictlyOrderedNoOverlap(timeline) ==
    \A k \in 1..(Len(timeline) - 1) :
        /\ timeline[k].timeline_in < timeline[k + 1].timeline_in
        /\ timeline[k].timeline_in # timeline[k + 1].timeline_in
        /\ timeline[k].timeline_in + (timeline[k].chain_out - timeline[k].chain_in)
               <= timeline[k + 1].timeline_in

PositiveDurations(evs) ==
    \A i \in RecognizedAt(evs) : evs[i].out > evs[i].in

(* C2, as stated: after building from any event sequence the placed clips
   are strictly ordered by timeline_start and do not overlap. *)
C2_AnyEvents ==
    pc # "init" => StrictlyOrderedNoOverlap(track.timeline)

(* C2, amended: the same when every recognized clip reference has
   source_out > source_in. *)
C2_OrderedNoOverlap ==
    (pc # "init" /\ PositiveDurations(children))
        => StrictlyOrderedNoOverlap(track.timeline)

C2_Witness ==
    /\ pc = "built"
    /\ PositiveDurations(children)
    /\ Len(track.timeline) >= 2
    /\ \E i \in 1..Len(children) : children[i].tag = "blank"

----------------------------------------------------------------------------
(* Properties of the query *)

Queried == pc \in {"sought", "trimmed"}

(* the window does not start before the first clip of the track *)
StartOnTrack == window.start >= track.timeline[1].timeline_in

StartsAtOrBefore(timeline, start) ==
    {i \in 1..Len(timeline) : timeline[i].timeline_in <= start}

Greatest(S) == CHOOSE i \in S : \A j \in S : j <= i

(* the positions after k whose clip starts before end *)
LaterBefore(timeline, k, end) ==
    {i \in (k + 1)..Len(timeline) : timeline[i].timeline_in < end}

(* the n-th smallest member of S *)
Nth(S, n) == CHOOSE i \in S : Cardinality({j \in S : j < i}) = n - 1

(* C3: when the window does not start before the first clip, seek_chains
   returns the rightmost clip starting at or before start, followed in
   timeline order by exactly the later clips that start before end. *)
C3_SeekResult ==
    (Queried /\ StartOnTrack) =>
        LET T == track.timeline
            k == Greatest(StartsAtOrBefore(T, window.start))
            S == LaterBefore(T, k, window.end)
        IN  /\ results.err = "none"
            /\ Len(results.clips) = 1 + Cardinality(S)
            /\ results.clips[1] = T[k]
            /\ \A n \in 1..Cardinality(S) : results.clips[n + 1] = T[Nth(S, n)]

(* a later clip is returned and a clip starting exactly at end is not *)
C3_Witness ==
    /\ pc = "sought"
    /\ StartOnTrack
    /\ Len(results.clips) >= 2
    /\ \E i \in 1..Len(track.timeline) :
          track.timeline[i].timeline_in = window.end

(* C4: the emitted trim start of every returned clip is
   source_in + max(0, window.start - timeline_start).  Stated for tracks
   whose clips all have source_out > source_in and windows that start on
   the track, where the query result is the one of C3. *)
C4_TrimStart ==
    (pc = "trimmed" /\ PositiveDurations(children) /\ StartOnTrack) =>
        \A n \in 1..Len(instructions) :
            LET t == results.clips[n]
            IN  instructions[n].start
                    = strftime(t.chain_in + Max(0, window.start - t.timeline_in))

(* C5: the emitted trim end of every returned clip is source_in plus the
   window length when the clip is longer than the window, else source_out,
   and so never exceeds source_out.  Stated for tracks whose clips all have
   source_out > source_in and windows that start on the track. *)
C5_TrimEnd ==
    (pc = "trimmed" /\ PositiveDurations(children) /\ StartOnTrack) =>
        \A n \in 1..Len(instructions) :
            LET t == results.clips[n]
                len == window.end - window.start
            IN  /\ instructions[n].end
                       = strftime(IF t.chain_out - t.chain_in > len
                                  THEN t.chain_in + len
                                  ELSE t.chain_out)
                /\ instructions[n].end <= t.chain_out

(* C6: a window that starts before the first clip of the track makes the
   query fail: no clip list is returned and no trim instruction is
   computed for the track.  Stated for tracks whose clips all have
   source_out > source_in. *)
C6_OutOfRange ==
    (Queried /\ PositiveDurations(children) /\ ~StartOnTrack) =>
        /\ results.err # "none"
        /\ results.clips = <<>>
        /\ instructions = <<>>

----------------------------------------------------------------------------
(* Specification of one project load *)

ResA == <<Prop("resource", "a.mp4")>>

ResB == <<Prop("kdenlive:id", "2"), Prop("resource", "b.mp4")>>

NoRes == <<Prop("kdenlive:id", "3")>>

ChainElems ==
    {ChainElem(ChainA, ResA), ChainElem(ChainA, NoRes),
     ChainElem(ChainB, ResB), ChainElem(ChainB, NoRes)}

PlaylistElems ==
    {PlaylistElem(MainBin, <<Entry(ChainA, 0, 5), Entry(ChainB, 1, 3)>>),
     PlaylistElem("playlist0", <<Blank(2)>>),
     PlaylistElem("playlist0", <<Blank(2), Entry(ChainA, 0, 5)>>),
     PlaylistElem("playlist0", <<Entry(BlackTrack, 0, 5)>>),
     PlaylistElem("playlist1", <<Blank(2)>>),
     PlaylistElem("playlist1", <<Entry(ChainB, 1, 3)>>)}

TractorElems ==
    {TractorElem(<<Track("playlist0", FALSE, "")>>),
     TractorElem(<<Track("playlist0", TRUE, "both")>>),
     TractorElem(<<Track("playlist0", TRUE, "audio")>>),
     TractorElem(<<Track("playlist1", TRUE, "both")>>),
     TractorElem(<<Track("playlist1", TRUE, "audio")>>),
     TractorElem(<<Track("playlist0", TRUE, "audio"),
                   Track("playlist1", TRUE, "both")>>)}

Elements == ChainElems \cup PlaylistElems \cup TractorElems

WellFormed(root) == [wellformed |-> TRUE, root |-> root]

Malformed == [wellformed |-> FALSE, root |-> <<>>]

ProjectFiles ==
    {WellFormed(root) : root \in SeqUpTo(Elements, MaxElements)} \cup {Malformed}

LoadInit ==
    /\ pc = "file"
    /\ project \in ProjectFiles
    /\ loaded = NoLoad
    /\ pl_id = ""
    /\ children = <<>>
    /\ track = NoTrack
    /\ window = NoWindow
    /\ results = NoResults
    /\ instructions = <<>>
    /\ day = 0
    /\ output = NoOutput
    /\ printed = <<>>
    /\ outfile = NoFile

Load ==
    /\ pc = "file"
    /\ loaded' = parse_kdenlive_project(project)
    /\ pc' = "loaded"
    /\ UNCHANGED <<pl_id, children, track, window, results, instructions,
                   project, day, output, printed, outfile>>

LoadNext == Load

SpecLoad == LoadInit /\ [][LoadNext]_vars

----------------------------------------------------------------------------
(* Properties of the project load, stated over the elements of the file *)

PlaylistsAt(root) == {i \in 1..Len(root) : root[i].tag = "playlist"}

(* the tracks of the file that are not the asset bin and hold at least one
   recognized clip reference *)
ValidIds(root) ==
    {root[i].id : i \in {k \in PlaylistsAt(root) :
        /\ root[k].id # MainBin
        /\ \E c \in 1..Len(root[k].children) : Recognized(root[k].children[c])}}

(* the hide-mode declarations of the file: element, track, in document
   order *)
Declarations(root) ==
    UNION {{<<i, j>> : j \in {k \in 1..Len(root[i].tracks) : root[i].tracks[k].has_hide}} :
              i \in {k \in 1..Len(root) : root[k].tag = "tractor"}}

DeclarationsOf(root, id) ==
    {d \in Declarations(root) : root[d[1]].tracks[d[2]].producer = id}

Later(d, e) == d[1] > e[1] \/ (d[1] = e[1] /\ d[2] >= e[2])

(* the hide-mode a track is declared with: its last declaration *)
DeclaredHide(root, id) ==
    LET d == CHOOSE d \in DeclarationsOf(root, id) :
                 \A e \in DeclarationsOf(root, id) : Later(d, e)
    IN  root[d[1]].tracks[d[2]].hide

AllDeclared(root) == \A id \in ValidIds(root) : DeclarationsOf(root, id) # {}

ChainsAt(root) == {i \in 1..Len(root) : root[i].tag = "chain"}

HasResource(elem) == \E p \in 1..Len(elem.props) : elem.props[p].name = "resource"

ReturnedIds == {loaded.playlists[i].id : i \in 1..Len(loaded.playlists)}

(* C7: a valid track without a hide-mode declaration makes the load fail;
   nothing is returned, and the failure is the KeyError of the status lookup
   whenever the loop over the elements itself completed (every chain
   declaration carries a resource). *)
C7_MissingDeclarationFails ==
    (pc = "loaded" /\ project.wellformed /\ ~AllDeclared(project.root)) =>
        /\ loaded.err # "none"
        /\ loaded.playlists = <<>>
        /\ (\A i \in ChainsAt(project.root) : HasResource(project.root[i]))
              => loaded.err = "KeyError"

C7_Witness ==
    /\ pc = "loaded"
    /\ project.wellformed
    /\ ~AllDeclared(project.root)
    /\ Declarations(project.root) # {}
    /\ loaded.err = "KeyError"

(* C8: when every valid track is declared, a load that returns returns
   exactly the tracks that are not the asset bin, hold a recognized clip
   reference and are not declared "both", wherever the declarations stand
   in the file; and the status lookup does not fail. *)
C8_ReturnedTracks ==
    (pc = "loaded" /\ project.wellformed /\ AllDeclared(project.root)) =>
        /\ loaded.err # "KeyError"
        /\ loaded.err = "none" =>
              /\ ReturnedIds = {id \in ValidIds(project.root) :
                                   DeclaredHide(project.root, id) # "both"}
              /\ \A i, j \in 1..Len(loaded.playlists) :
                    loaded.playlists[i].id = loaded.playlists[j].id => i = j

(* a track declared "audio" is returned, one declared "both" is not, with the
   declarations standing before a playlist of the file *)
C8_Witness ==
    /\ pc = "loaded"
    /\ loaded.err = "none"
    /\ ReturnedIds = {"playlist0"}
    /\ ValidIds(project.root) = {"playlist0", "playlist1"}
    /\ DeclaredHide(project.root, "playlist0") = "audio"
    /\ DeclaredHide(project.root, "playlist1") = "both"
    /\ \E d \in Declarations(project.root), i \in PlaylistsAt(project.root) :
          d[1] < i

(* the resource path declared inside a chain declaration *)
OwnResource(elem) ==
    LET p == CHOOSE p \in 1..Len(elem.props) :
                 /\ elem.props[p].name = "resource"
                 /\ \A q \in 1..(p - 1) : elem.props[q].name # "resource"
    IN  elem.props[p].text

LastChainOf(root, id) ==
    CHOOSE i \in ChainsAt(root) :
        /\ root[i].id = id
        /\ \A j \in ChainsAt(root) : root[j].id = id => j <= i

(* C9: after a load the registry maps every declared chain id to the
   resource path declared inside that same declaration. *)
C9_RegistryOwnResource ==
    (pc = "loaded" /\ loaded.err = "none") =>
        \A id \in DOMAIN loaded.chains :
            LET elem == project.root[LastChainOf(project.root, id)]
            IN  HasResource(elem) /\ loaded.chains[id] = OwnResource(elem)

----------------------------------------------------------------------------
(* Specification of a batch run: the days of the instructions file, one
   after the other *)

Chain0A == ChainElem(ChainA, ResA)

Chain1B == ChainElem(ChainB, ResB)

Lane0 == PlaylistElem("playlist0", <<Blank(2), Entry(ChainA, 0, 5)>>)

Lane1 == PlaylistElem("playlist1", <<Entry(ChainB, 1, 3)>>)

Audio0 == TractorElem(<<Track("playlist0", TRUE, "audio")>>)

Audio1 == TractorElem(<<Track("playlist1", TRUE, "audio")>>)

(* the project files <day>.kdenlive a run may find *)
DayFiles ==
    {Malformed,
     WellFormed(<<Chain0A, Lane0, Audio0>>),
     WellFormed(<<Chain0A, Chain1B, Lane0, Lane1, Audio0, Audio1>>),
     WellFormed(<<Chain0A, Lane0>>),
     WellFormed(<<Lane0, Audio0>>),
     WellFormed(<<Chain0A, Lane0, Lane1, Audio0, Audio1>>)}

BatchInit ==
    /\ pc = "job"
    /\ day = 0
    /\ loaded = NoLoad
    /\ window = NoWindow
    /\ output = NoOutput
    /\ printed = <<>>
    /\ outfile = NoFile
    /\ project = NoProject
    /\ pl_id = ""
    /\ children = <<>>
    /\ track = NoTrack
    /\ results = NoResults
    /\ instructions = <<>>

(* chains, playlists = parse_kdenlive_project(f"{day}.kdenlive") *)
JobLoad ==
    /\ pc = "job"
    /\ \E file \in DayFiles :
          /\ project' = file
          /\ loaded' = parse_kdenlive_project(file)
    /\ pc' = after(loaded'.err, "query")
    /\ output' = NoOutput
    /\ UNCHANGED <<pl_id, children, track, window, results, instructions,
                   day, printed, outfile>>

(* the window of the day is read and every kept playlist is queried *)
JobQuery ==
    /\ pc = "query"
    /\ \E start \in WindowStarts, end \in WindowEnds :
          /\ window' = [start |-> start, end |-> end]
          /\ output' = job_output(loaded.chains, loaded.playlists, start, end)
    /\ pc' = after(output'.err, "print")
    /\ UNCHANGED <<pl_id, children, track, results, instructions,
                   project, loaded, day, printed, outfile>>

(* print(output) *)
JobPrint ==
    /\ pc = "print"
    /\ printed' = Append(printed, output.files)
    /\ pc' = "write"
    /\ UNCHANGED <<pl_id, children, track, window, results, instructions,
                   project, loaded, day, output, outfile>>

(* yaml.dump(output, w) into sample_output.yaml, then the next day *)
JobWrite ==
    /\ pc = "write"
    /\ outfile' = [exists |-> TRUE, content |-> output.files]
    /\ day' = day + 1
    /\ pc' = IF day + 1 < MaxJobs THEN "job" ELSE "done"
    /\ UNCHANGED <<pl_id, children, track, window, results, instructions,
                   project, loaded, output, printed>>

BatchNext == JobLoad \/ JobQuery \/ JobPrint \/ JobWrite

SpecBatch == BatchInit /\ [][BatchNext]_vars

----------------------------------------------------------------------------
(* Properties of the batch run *)

JobFailed == loaded.err # "none" \/ output.err # "none"

(* C10, as stated: when a job fails the run is aborted and nothing has been
   emitted by the run, neither printed nor written. *)
C10_NoOutputAtAbort ==
    /\ JobFailed => pc = "aborted"
    /\ pc = "aborted" => (printed = <<>> /\ ~outfile.exists)

(* C10, amended: a failure in any job aborts the run; the failing job has
   emitted nothing, while the output of every job completed before it has
   been printed and the file holds the output of the last of them. *)
C10_AbortAfterEarlierOutput ==
    /\ JobFailed => pc = "aborted"
    /\ pc = "aborted" =>
          /\ JobFailed
          /\ Len(printed) = day
          /\ outfile = IF day = 0 THEN NoFile
                       ELSE [exists |-> TRUE, content |-> printed[day]]

C10_Witness ==
    /\ pc = "aborted"
    /\ day >= 1
    /\ DOMAIN printed[1] # {}
    /\ output.err = "KeyError"

====
